---- MODULE Spec2Model ----
(***************************************************************************)
(* Model of the five driver scripts of the repository (main.py,            *)
(* bootstrap_few_shot.py, mipro_v2_prompt.py, mipro_v2_prompt_fewshot.py,  *)
(* mipro_v2_blog_generation.py) and of the two metrics they define,        *)
(* validate_math and validate_blog.                                        *)
(*                                                                         *)
(* The optimizers (BootstrapFewShot, MIPROv2), the predictors and the LM   *)
(* client are the dspy library: the scripts only call them.  A compile     *)
(* call is therefore modelled as an opaque sequence of library steps (LM   *)
(* calls and metric callbacks) that ends by returning or by raising; what  *)
(* the library selects, how many trials it runs and how it scores them is  *)
(* not part of the repository and is not modelled.                         *)
(***************************************************************************)
EXTENDS Integers, Sequences, FiniteSets, TLC

VARIABLES script, pc, apiKey, lmConfigured, dataset, history, compileSteps,
          lastMetric, metricRaised

vars == <<script, pc, apiKey, lmConfigured, dataset, history, compileSteps,
          lastMetric, metricRaised>>

(* ------------------------------ bounds --------------------------------- *)

MaxBlogLen == 2

MaxScoreLen == 2

MaxAnswerLen == 2

MaxCompileSteps == 2

(* ------------------------------ strings -------------------------------- *)

StringsUpTo(alphabet, n) == UNION {[1..k -> alphabet] : k \in 0..n}

\* Code points of the generated blog text: U+3040 (just below the class),
\* U+3041 and U+3093 (the two ends of the character class
\* that validate_blog searches for), U+3094 (just above).
BlogChars == {12352, 12353, 12435, 12436}

BlogTexts == StringsUpTo(BlogChars, MaxBlogLen)

\* Characters of the judge's raw score field.
ScoreChars == {"1", "5", " ", "-", "/"}

ScoreTexts == StringsUpTo(ScoreChars, MaxScoreLen)

\* Characters of the math program's answer field.
AnswerChars == {"0", "2", "3", "5"}

AnswerTexts == StringsUpTo(AnswerChars, MaxAnswerLen)

\* The files the dataset folders may hold (base names).
FileNames == {"remote_work", "sleep"}

Scripts == {"main", "bootstrap_few_shot", "mipro_v2_prompt",
            "mipro_v2_prompt_fewshot", "mipro_v2_blog_generation"}

BlogScript == "mipro_v2_blog_generation"

(* --------------------------- validate_math ----------------------------- *)

\* The examples of math_data: question/answer pairs, answers as characters.
math_data == << [question |-> "What is 10 + 20?",   answer |-> <<"3", "0">>],
                [question |-> "What is 5 * 5?",     answer |-> <<"2", "5">>],
                [question |-> "What is 100 / 2?",   answer |-> <<"5", "0">>],
                [question |-> "What is 12 - 4?",    answer |-> <<"8">>],
                [question |-> "What is 3 + 2 * 4?", answer |-> <<"1", "1">>] >>

\* trainset = math_data[:3], as indices into math_data.
trainset == <<1, 2, 3>>

\* Python's `a in b` on strings: a occurs in b as a contiguous run.
Substring(a, b) ==
    \E i \in 0..(Len(b) - Len(a)) : \A j \in 1..Len(a) : b[i + j] = a[j]

RetBool(t) == [kind |-> "bool", truth |-> t]

RetInt(n) == [kind |-> "int", val |-> n]

Raised == [kind |-> "raise"]

validate_math(example, predAnswer) ==
    RetBool(Substring(math_data[example].answer, predAnswer))

(* --------------------------- validate_blog ----------------------------- *)

\* re.search(r'[U+3041-U+3093]', pred.blog): some character of the text lies
\* in the class, both ends included.
HasHiragana(blog) == \E i \in 1..Len(blog) : blog[i] >= 12353 /\ blog[i] <= 12435

IsSpace(c) == c = " "

IsDigit(c) == c \in {"0", "1", "2", "3", "4", "5", "6", "7", "8", "9"}

DigitVal(c) ==
    CASE c = "0" -> 0 [] c = "1" -> 1 [] c = "2" -> 2 [] c = "3" -> 3
      [] c = "4" -> 4 [] c = "5" -> 5 [] c = "6" -> 6 [] c = "7" -> 7
      [] c = "8" -> 8 [] c = "9" -> 9

RECURSIVE LStrip(_)
LStrip(s) == IF s # <<>> /\ IsSpace(Head(s)) THEN LStrip(Tail(s)) ELSE s

RECURSIVE RStrip(_)
RStrip(s) ==
    IF s # <<>> /\ IsSpace(s[Len(s)]) THEN RStrip(SubSeq(s, 1, Len(s) - 1)) ELSE s

RECURSIVE Decimal(_)
Decimal(ds) ==
    IF ds = <<>> THEN 0
    ELSE 10 * Decimal(SubSeq(ds, 1, Len(ds) - 1)) + DigitVal(ds[Len(ds)])

\* Python's int(str): surrounding whitespace is dropped, one optional sign,
\* then at least one digit and nothing else; anything else is a ValueError
\* (digit-group underscores are not among ScoreChars and are not modelled).
PyInt(s) ==
    LET t      == RStrip(LStrip(s))
        signed == t # <<>> /\ Head(t) \in {"+", "-"}
        digits == IF signed THEN Tail(t) ELSE t
        ok     == digits # <<>> /\ \A i \in 1..Len(digits) : IsDigit(digits[i])
    IN  IF ~ok THEN [ok |-> FALSE, val |-> 0]
        ELSE [ok |-> TRUE,
              val |-> IF signed /\ Head(t) = "-" THEN 0 - Decimal(digits)
                      ELSE Decimal(digits)]

\* What the nested judge call can do: fail in the LM client, answer without a
\* score field, or answer with a score field holding some text.
JudgeOutcomes ==
    {[kind |-> "transport_error", raw |-> <<>>], [kind |-> "no_score", raw |-> <<>>]}
      \cup {[kind |-> "score", raw |-> s] : s \in ScoreTexts}

\* The body of the try block: judge(...), then int(result.score).
JudgeAndCoerce(judge) ==
    IF judge.kind # "score" THEN Raised
    ELSE IF ~PyInt(judge.raw).ok THEN Raised
    ELSE RetInt(PyInt(judge.raw).val)

validate_blog_NoExcept(blog, judge) ==
    IF ~HasHiragana(blog) THEN RetBool(FALSE) ELSE JudgeAndCoerce(judge)

validate_blog(blog, judge) ==
    IF ~HasHiragana(blog) THEN RetBool(FALSE)
    ELSE LET r == JudgeAndCoerce(judge)
         IN  IF r.kind = "raise" THEN RetInt(0) ELSE r

(* ------------------------- the scripts' calls -------------------------- *)

\* The optimizer each script builds and the keyword arguments it passes to
\* the constructor and to compile.
Config(s) ==
    CASE s \in {"main", "bootstrap_few_shot"} ->
           [optimizer |-> "BootstrapFewShot", metric |-> "validate_math",
            max_bootstrapped_demos |-> 2]
      [] s = "mipro_v2_prompt" ->
           [optimizer |-> "MIPROv2", metric |-> "validate_math",
            num_candidates |-> 3, max_bootstrapped_demos |-> 0,
            max_labeled_demos |-> 0, minibatch |-> FALSE, num_trials |-> 6]
      [] s = "mipro_v2_prompt_fewshot" ->
           [optimizer |-> "MIPROv2", metric |-> "validate_math",
            num_candidates |-> 3, max_bootstrapped_demos |-> 2,
            max_labeled_demos |-> 2, minibatch |-> FALSE, num_trials |-> 6]
      [] s = "mipro_v2_blog_generation" ->
           [optimizer |-> "MIPROv2", metric |-> "validate_blog",
            num_candidates |-> 3, max_bootstrapped_demos |-> 0,
            max_labeled_demos |-> 0, minibatch |-> FALSE, num_trials |-> 4]

\* Whether the script runs the unoptimized program once before compiling.
RunsZeroShot(s) == s \in {"main", "bootstrap_few_shot", "mipro_v2_blog_generation"}

\* One LM invocation by `who`: one entry is appended to lm.history.
LMCall(h, who) == Append(h, who)

\* All orders of the elements of a finite set.
Orderings(S) ==
    {q \in [1..Cardinality(S) -> S] : \A i, j \in 1..Cardinality(S) : q[i] = q[j] => i = j}

NoCall == [metric |-> "none"]

\* The judge argument of a validate_blog call that returned before the judge.
NotInvoked == [kind |-> "not_invoked", raw |-> <<>>]

(* ------------------------------- Init ---------------------------------- *)

\* The math scripts define their data at import and go on to main(); the
\* blog script first loads its dataset from the dataset/ folder.
Init ==
    /\ script \in Scripts
    /\ apiKey \in BOOLEAN
    /\ pc = IF script = BlogScript THEN "load" ELSE "check_key"
    /\ dataset = IF script = BlogScript THEN <<>> ELSE trainset
    /\ lmConfigured = FALSE
    /\ history = <<>>
    /\ compileSteps = 0
    /\ lastMetric = NoCall
    /\ metricRaised = FALSE

(* --------------------- mipro_v2_blog_generation.py --------------------- *)

\* load_dataset(): one Example per notes file that has a blog file of the
\* same base name, in the order glob yields the notes files.
load_dataset ==
    /\ pc = "load"
    /\ \E notes \in SUBSET FileNames, blogs \in SUBSET FileNames :
         \E order \in Orderings(notes \cap blogs) :
            dataset' = order
    /\ pc' = "check_dataset"
    /\ UNCHANGED <<script, apiKey, lmConfigured, history, compileSteps,
                   lastMetric, metricRaised>>

CheckDatasetSkipped ==
    /\ pc = "check_dataset"
    /\ pc' = "check_key"
    /\ UNCHANGED <<script, apiKey, lmConfigured, dataset, history, compileSteps,
                   lastMetric, metricRaised>>

\* `if not full_dataset: print(...); exit()`, at import, before main().
CheckDataset ==
    /\ pc = "check_dataset"
    /\ pc' = IF dataset = <<>> THEN "exited" ELSE "check_key"
    /\ UNCHANGED <<script, apiKey, lmConfigured, dataset, history, compileSteps,
                   lastMetric, metricRaised>>

(* ------------------------------- main() -------------------------------- *)

\* `if not os.environ.get("GOOGLE_API_KEY"): ...; return`
CheckApiKey ==
    /\ pc = "check_key"
    /\ pc' = IF apiKey THEN "configure" ELSE "done"
    /\ UNCHANGED <<script, apiKey, lmConfigured, dataset, history, compileSteps,
                   lastMetric, metricRaised>>

\* lm = dspy.LM(...); dspy.configure(lm=lm)
ConfigureLM ==
    /\ pc = "configure"
    /\ lmConfigured' = TRUE
    /\ pc' = IF RunsZeroShot(script) THEN "zero_shot" ELSE "compile"
    /\ UNCHANGED <<script, apiKey, dataset, history, compileSteps,
                   lastMetric, metricRaised>>

\* The unoptimized program is run once; a failing LM call ends the script.
ZeroShotInvoke ==
    /\ pc = "zero_shot"
    /\ \/ /\ history' = LMCall(history, "zero_shot")
          /\ pc' = "compile"
       \/ /\ history' = history
          /\ pc' = "crashed"
    /\ UNCHANGED <<script, apiKey, lmConfigured, dataset, compileSteps,
                   lastMetric, metricRaised>>

(* ----------------------- teleprompter.compile() ------------------------ *)

\* The optimizer invokes the LM (the student on an example, or its own
\* instruction proposer).
CompileLMCall ==
    /\ pc = "compile"
    /\ compileSteps < MaxCompileSteps
    /\ compileSteps' = compileSteps + 1
    /\ history' = LMCall(history, "compile")
    /\ UNCHANGED <<script, pc, apiKey, lmConfigured, dataset, lastMetric, metricRaised>>

\* The optimizer calls the metric on a training example and a prediction;
\* validate_blog invokes the judge only for a text that passed its
\* hiragana test, and a judge call that reached the LM is logged.
CompileMetricCall ==
    /\ pc = "compile"
    /\ compileSteps < MaxCompileSteps
    /\ compileSteps' = compileSteps + 1
    /\ \E i \in 1..Len(dataset) :
         IF Config(script).metric = "validate_math"
         THEN \E answer \in AnswerTexts :
                /\ lastMetric' = [metric |-> "validate_math", example |-> dataset[i],
                                  answer |-> answer,
                                  result |-> validate_math(dataset[i], answer)]
                /\ history' = history
         ELSE \E blog \in BlogTexts :
                \E judge \in IF HasHiragana(blog) THEN JudgeOutcomes ELSE {NotInvoked} :
                   /\ lastMetric' = [metric |-> "validate_blog", example |-> dataset[i],
                                     blog |-> blog, judge |-> judge,
                                     result |-> validate_blog(blog, judge)]
                   /\ history' = IF judge.kind \in {"no_score", "score"}
                                 THEN LMCall(history, "judge") ELSE history
    /\ pc' = "metric_returned"
    /\ UNCHANGED <<script, apiKey, lmConfigured, dataset, metricRaised>>

\* The optimizer takes what the metric call gave it. An exception leaving
\* the metric reaches the optimizer, which may go on or give up.
CompileTakeScore ==
    /\ pc = "metric_returned"
    /\ metricRaised' = (metricRaised \/ lastMetric.result.kind = "raise")
    /\ pc' \in IF lastMetric.result.kind = "raise" THEN {"compile", "crashed"}
               ELSE {"compile"}
    /\ lastMetric' = NoCall
    /\ UNCHANGED <<script, apiKey, lmConfigured, dataset, history, compileSteps>>

\* compile returns the compiled program.
CompileReturn ==
    /\ pc = "compile"
    /\ pc' = "optimized"
    /\ UNCHANGED <<script, apiKey, lmConfigured, dataset, history, compileSteps,
                   lastMetric, metricRaised>>

\* compile raises (an LM call of the optimizer fails): the script ends.
CompileRaise ==
    /\ pc = "compile"
    /\ pc' = "crashed"
    /\ UNCHANGED <<script, apiKey, lmConfigured, dataset, history, compileSteps,
                   lastMetric, metricRaised>>

\* The compiled program is run once; the scripts then print and return.
OptimizedInvoke ==
    /\ pc = "optimized"
    /\ \/ /\ history' = LMCall(history, "optimized")
          /\ pc' = "done"
       \/ /\ history' = history
          /\ pc' = "crashed"
    /\ UNCHANGED <<script, apiKey, lmConfigured, dataset, compileSteps,
                   lastMetric, metricRaised>>

Next ==
    \/ load_dataset
    \/ CheckDataset
    \/ CheckApiKey
    \/ ConfigureLM
    \/ ZeroShotInvoke
    \/ CompileLMCall
    \/ CompileMetricCall
    \/ CompileTakeScore
    \/ CompileReturn
    \/ CompileRaise
    \/ OptimizedInvoke

Spec == Init /\ [][Next]_vars

(* ------------------------------ claims --------------------------------- *)

\* The nested judge call failed: the LM client raised, the answer has no
\* score field, or int() rejects the score text.
JudgeFailed(judge) ==
    \/ judge.kind \in {"transport_error", "no_score"}
    \/ judge.kind = "score" /\ ~PyInt(judge.raw).ok

\* C5: validate_blog never lets a failure of the nested judge call escape.
\* Whenever the optimizer has just called it, the call returned (it did not
\* raise); if the judge was invoked and failed (transport error, no score
\* field, score text that int() rejects) it returned the integer 0; what it
\* returned is False, 0, or the integer read from the judge's score; and no
\* metric exception ever reached the optimizer, which has the score in hand.
C5_JudgeFailureDegradesToZero ==
    /\ ~metricRaised
    /\ lastMetric.metric = "validate_blog" =>
         /\ lastMetric.result.kind # "raise"
         /\ pc = "metric_returned"
         /\ JudgeFailed(lastMetric.judge) => lastMetric.result = RetInt(0)
         /\ \/ lastMetric.result = RetBool(FALSE)
            \/ lastMetric.result = RetInt(0)
            \/ /\ lastMetric.judge.kind = "score"
               /\ PyInt(lastMetric.judge.raw).ok
               /\ lastMetric.result = RetInt(PyInt(lastMetric.judge.raw).val)

\* C5 witness: the judge answered "5/" for a Japanese blog, int() rejected
\* it, and the metric returned 0 to the optimizer.
C5_Witness ==
    /\ lastMetric.metric = "validate_blog"
    /\ HasHiragana(lastMetric.blog)
    /\ lastMetric.judge = [kind |-> "score", raw |-> <<"5", "/">>]
    /\ lastMetric.result = RetInt(0)
    /\ pc = "metric_returned"

\* The configuration the script hands to the optimizer is in error: a
\* negative demonstration bound, num_trials <= 0, or an empty training set
\* (the blog script's training set is known once the dataset is loaded).
ConfigError ==
    LET c == Config(script)
    IN  \/ c.max_bootstrapped_demos < 0
        \/ "max_labeled_demos" \in DOMAIN c /\ c.max_labeled_demos < 0
        \/ "num_trials" \in DOMAIN c /\ c.num_trials <= 0
        \/ pc # "load" /\ dataset = <<>>

====
